---- MODULE Spec2Model ----
(***************************************************************************)
(* A model of hardware/bean/avr/cores/bean/Bean.cpp: the deep-sleep        *)
(* sequence of BeanClass::sleep / attemptSleep and the MIDI ring buffer,   *)
(* packet encoder (midiSend, midiPacketSend) and decoder (midiRead), and   *)
(* keepAwake, setScratchData and the pin-change interrupts                 *)
(* (attachChangeInterrupt, detachChangeInterrupt).                         *)
(***************************************************************************)
EXTENDS Integers, Sequences, FiniteSets, TLC

(***************************************************************************)
(* Program constants                                                       *)
(***************************************************************************)
MAX_SCRATCH_SIZE == 20
MIDI_BUFFER_SIZE == 20
BLE_PACKET_SIZE == 20
MAX_SLEEP_POLL == 30
MAX_DELAY == 30000
MIN_SLEEP_TIME == 10

(***************************************************************************)
(* Bounds of the model                                                     *)
(***************************************************************************)
\* successful + failed midiSend calls explored in the ring-buffer runs
MaxRingSends == 24
\* midiSend calls explored in the encode/decode runs
MaxCodecSends == 2
\* latest clock value an encode/decode run lets millis() reach
CodecMaxNow == 127
\* inbound bytes buffered at once in the decoder runs
MaxRx == 5
\* writes to the scratch characteristics explored in the scratch runs
MaxScratchWrites == 2
\* midiSend calls explored in the packet-header runs
MaxHeadSends == 2
\* latest clock value a packet-header run lets millis() reach
HeadMaxNow == 45000

\* durations handed to sleep()
SleepDurations == {0, 5, 9, 10, 20, 30, 31, 40, 30000}
\* durations handed to sleep() where the retry loop is explored: one above
\* MAX_DELAY, one below
LongDurations == {40, 30010}
\* clock advance between two calls, in ms
TickSteps == {127}
\* clock advance between two calls of the packet-header runs, in ms
HeadTickSteps == {4033, 8192, 16384}
\* bank, dataLength and first data byte of the setScratchData calls
ScratchBanks == {1, 5}
ScratchLengths == {0, 1, 20, 21, 255}
ScratchFirst == {0, 255}
\* pins handed to attachChangeInterrupt and detachChangeInterrupt (6 has no
\* case in either switch) and the handlers attached; 0 stands for NULL
ChangePins == {0, 1, 2, 6}
Handlers == {1, 2}
\* status, data1, data2 of the events of the encode/decode runs
CodecEvents == {<<144, 69, 100>>, <<144, 255, 255>>, <<255, 69, 255>>,
                <<255, 255, 255>>}
\* inbound bytes of the decoder runs
RxBytes == {0, 144, 255}

U8(x) == x % 256

VARIABLES
  \* ---- BeanClass::sleep / attemptSleep ----
  cpu,   \* the foreground code: its position and the locals of sleep() and
         \* attemptSleep()
  io,    \* the registers and lines the code touches, and the co-processor
  call,  \* observations of the current sleep() call
  \* ---- MIDI ----
  midiMessages, midiWriteOffset, midiReadOffset, midiPacket,
  now,             \* millis()
  sent,            \* bytes of the last Serial.write_message(MSG_ID_MIDI_WRITE)
  rx,              \* the transport's inbound MIDI bytes
  midiPacketBegin, lastStatus,
  out,             \* the caller's *status, *byte1, *byte2
  lastOp,          \* the last MIDI call made and what it returned
  obs              \* observations of the MIDI calls

sleepVars == <<cpu, io, call>>

ringVars == <<midiMessages, midiWriteOffset, midiReadOffset, midiPacket, sent>>

decVars == <<rx, midiPacketBegin, lastStatus, out>>

midiVars == <<ringVars, decVars, now, lastOp, obs>>

vars == <<sleepVars, midiVars>>

(***************************************************************************)
(* BeanClass::sleep and BeanClass::attemptSleep                            *)
(*                                                                         *)
(* cpu.pc is the next statement of sleep() to run ("idle": not in sleep()).*)
(* io holds DDRD bit 3 (ddrd3, TRUE = output), PIND bit 3 (pind3, TRUE =   *)
(* high: the co-processor sleeps), ADCSRA.ADEN (aden), ACSR.ACD (acd),     *)
(* SMCR.SE (se), MCUCR.BODS (bods), SREG.I (iflag), the one-instruction    *)
(* delay of sei (seiShadow), the mode INT1 is attached with (attached),    *)
(* whether the CPU is in power-down (asleep), the last UART sleep          *)
(* configuration sent (uartSleep), whether a sleep request is pending at   *)
(* the co-processor (tiReq) and the messages handed to                     *)
(* Serial.BTSetScratchChar so far (scratchTx), PCICR.PCIE0 and PCIE2       *)
(* (pcie0, pcie2), the pins whose PCMSK0 / PCMSK2 bit is set (pcmsk) and   *)
(* the file-scope handler pointer intFunc (0 = NULL).                      *)
(* call observes the current sleep() call: the duration it was given (dur),*)
(* the requests sent (nReqs, lastReq, zeroReq), the polls made and the     *)
(* milliseconds spent in delay() (nPolls, waited), whether a poll of the   *)
(* latest request read the line high (pollHigh), whether the masked read   *)
(* of line 267 did (checkHigh), whether the line was high at any time      *)
(* (everHigh), and ADEN and ACD as they were on entry (aden0, acd0).       *)
(***************************************************************************)
CpuInit == [pc |-> "idle", ret |-> "first", duration_ms |-> 0,
            sleeping |-> FALSE, sleepLineSet |-> FALSE, pollCount |-> 0,
            adc_was_set |-> FALSE, ac_was_set |-> FALSE]

CallInit(d) == [dur |-> d, nReqs |-> 0, lastReq |-> -1, zeroReq |-> FALSE,
                nPolls |-> 0, waited |-> 0,
                everAttached |-> FALSE, everSE |-> FALSE,
                everSleepCpu |-> FALSE, everAsleep |-> FALSE,
                lowInWindow |-> FALSE, isrRan |-> FALSE, returned |-> FALSE,
                pollHigh |-> FALSE, checkHigh |-> FALSE, everHigh |-> FALSE,
                aden0 |-> FALSE, acd0 |-> FALSE]

\* the state before the first call: the pin direction and the two analog
\* peripherals are as the sketch left them
SleepInit(d3, ad, ac) ==
  /\ cpu = CpuInit
  /\ io = [ddrd3 |-> d3, pind3 |-> FALSE, aden |-> ad, acd |-> ac,
           se |-> FALSE, bods |-> FALSE, iflag |-> TRUE,
           seiShadow |-> FALSE, attached |-> "none", asleep |-> FALSE,
           uartSleep |-> "none", tiReq |-> FALSE, scratchTx |-> <<>>,
           pcie0 |-> FALSE, pcie2 |-> FALSE, pcmsk |-> {}, intFunc |-> 0]
  /\ call = [CallInit(-1) EXCEPT !.returned = TRUE, !.aden0 = ad,
                                  !.acd0 = ac]

\* the foreground code runs only while the CPU is awake
Running(at) == cpu.pc = at /\ ~io.asleep

\* sleep(duration_ms) is called
Call(d) ==
  /\ Running("idle")
  /\ cpu' = [CpuInit EXCEPT !.pc = "entry", !.duration_ms = d]
  /\ call' = [CallInit(d) EXCEPT !.everHigh = io.pind3, !.aden0 = io.aden,
                                  !.acd0 = io.acd]
  /\ io' = [io EXCEPT !.seiShadow = FALSE]

\* the floor test of line 141
BelowFloorOff(d) == d < MIN_SLEEP_TIME - 5

BelowFloor(d) == d < MIN_SLEEP_TIME

\* lines 136-144
Entry ==
  /\ Running("entry")
  /\ io' = [io EXCEPT !.ddrd3 = FALSE, !.uartSleep = "NORMAL",
                      !.seiShadow = FALSE]
  /\ IF BelowFloor(cpu.duration_ms)
       THEN /\ cpu' = [cpu EXCEPT !.pc = "idle"]
            /\ call' = [call EXCEPT !.waited = @ + cpu.duration_ms,
                                    !.returned = TRUE]
       ELSE /\ cpu' = [cpu EXCEPT !.pc = "as_req", !.ret = "first"]
            /\ call' = call

\* attemptSleep, lines 110-118: the request is sent and flushed
AttemptRequest ==
  /\ Running("as_req")
  /\ cpu' = [cpu EXCEPT !.pc = "as_poll", !.sleepLineSet = FALSE,
                        !.pollCount = 0]
  /\ io' = [io EXCEPT !.ddrd3 = FALSE, !.tiReq = TRUE, !.seiShadow = FALSE]
  /\ call' = [call EXCEPT !.nReqs = @ + 1, !.lastReq = cpu.duration_ms,
                          !.zeroReq = @ \/ cpu.duration_ms = 0,
                          !.pollHigh = FALSE]

\* attemptSleep, lines 120-125: one evaluation of the loop test and, when it
\* passes, one iteration
AttemptPoll ==
  /\ Running("as_poll")
  /\ io' = [io EXCEPT !.seiShadow = FALSE]
  /\ IF cpu.sleepLineSet
       THEN /\ cpu' = [cpu EXCEPT !.pc = "as_ret"]
            /\ call' = call
       ELSE IF cpu.pollCount < MAX_SLEEP_POLL
         THEN /\ cpu' = [cpu EXCEPT !.pollCount = U8(@ + 1),
                                    !.sleepLineSet = io.pind3]
              /\ call' = [call EXCEPT !.nPolls = @ + 1, !.waited = @ + 1,
                                      !.pollHigh = @ \/ io.pind3]
         ELSE /\ cpu' = [cpu EXCEPT !.pollCount = U8(@ + 1), !.pc = "as_ret"]
              /\ call' = call

\* attemptSleep returns (line 127) into line 151 or line 158
AttemptReturn ==
  /\ Running("as_ret")
  /\ cpu' = [cpu EXCEPT !.sleeping = cpu.sleepLineSet,
                        !.pc = IF cpu.ret = "first" THEN "branch" ELSE "retry"]
  /\ io' = [io EXCEPT !.seiShadow = FALSE]
  /\ call' = call

\* line 162 with the subtraction left out
RemainderOff(d) == d

\* line 162: the argument of delay()
Remainder(d) == d - MAX_SLEEP_POLL

\* lines 153-164, after the first attempt
Branch ==
  /\ Running("branch")
  /\ io' = [io EXCEPT !.seiShadow = FALSE]
  /\ IF ~cpu.sleeping /\ cpu.duration_ms > MAX_DELAY
       THEN /\ cpu' = [cpu EXCEPT !.pc = "retry"]
            /\ call' = call
       ELSE IF ~cpu.sleeping /\ cpu.duration_ms > MAX_SLEEP_POLL
         THEN /\ cpu' = [cpu EXCEPT !.pc = "slept", !.sleeping = FALSE]
              /\ call' = [call EXCEPT
                            !.waited = @ + Remainder(cpu.duration_ms)]
         ELSE /\ cpu' = [cpu EXCEPT !.pc = "slept"]
              /\ call' = call

\* lines 155-158: the loop test and, when it passes, the next attempt
Retry ==
  /\ Running("retry")
  /\ io' = [io EXCEPT !.seiShadow = FALSE]
  /\ call' = call
  /\ IF cpu.duration_ms > 0 /\ ~cpu.sleeping
       THEN cpu' = [cpu EXCEPT
                      !.duration_ms = IF @ >= MAX_SLEEP_POLL
                                        THEN @ - MAX_SLEEP_POLL ELSE 0,
                      !.pc = "as_req", !.ret = "retry"]
       ELSE cpu' = [cpu EXCEPT !.pc = "slept"]

\* lines 167-169
Slept ==
  /\ Running("slept")
  /\ io' = [io EXCEPT !.seiShadow = FALSE]
  /\ IF cpu.sleeping = FALSE
       THEN /\ cpu' = [cpu EXCEPT !.pc = "idle"]
            /\ call' = [call EXCEPT !.returned = TRUE]
       ELSE /\ cpu' = [cpu EXCEPT !.pc = "analog"]
            /\ call' = call

\* lines 174-184
AnalogOff ==
  /\ Running("analog")
  /\ cpu' = [cpu EXCEPT !.pc = "attach", !.adc_was_set = io.aden,
                        !.ac_was_set = io.acd]
  /\ io' = [io EXCEPT !.aden = FALSE, !.acd = FALSE, !.seiShadow = FALSE]
  /\ call' = call

\* lines 264-265
Attach ==
  /\ Running("attach")
  /\ cpu' = [cpu EXCEPT !.pc = "cli"]
  /\ io' = [io EXCEPT !.attached = "LOW", !.seiShadow = FALSE]
  /\ call' = [call EXCEPT !.everAttached = TRUE]

\* line 266
Cli ==
  /\ Running("cli")
  /\ cpu' = [cpu EXCEPT !.pc = "check"]
  /\ io' = [io EXCEPT !.iflag = FALSE, !.seiShadow = FALSE]
  /\ call' = call

\* line 267 with the test left out: sleep_enable is always reached
CheckOff ==
  /\ Running("check")
  /\ cpu' = [cpu EXCEPT !.pc = "sleep_enable"]
  /\ io' = [io EXCEPT !.seiShadow = FALSE]
  /\ call' = [call EXCEPT !.checkHigh = io.pind3 /\ ~io.iflag]

\* line 267
Check ==
  /\ Running("check")
  /\ cpu' = [cpu EXCEPT !.pc = IF io.pind3 THEN "sleep_enable" ELSE "sei"]
  /\ io' = [io EXCEPT !.seiShadow = FALSE]
  /\ call' = [call EXCEPT !.checkHigh = io.pind3 /\ ~io.iflag]

\* line 268
SleepEnable ==
  /\ Running("sleep_enable")
  /\ cpu' = [cpu EXCEPT !.pc = "bod"]
  /\ io' = [io EXCEPT !.se = TRUE, !.seiShadow = FALSE]
  /\ call' = [call EXCEPT !.everSE = TRUE]

\* line 269
BodDisable ==
  /\ Running("bod")
  /\ cpu' = [cpu EXCEPT !.pc = "sei_sleep"]
  /\ io' = [io EXCEPT !.bods = TRUE, !.seiShadow = FALSE]
  /\ call' = call

\* line 270 left out: the sleep instruction would run with interrupts masked
SeiSleepOmitted ==
  /\ Running("sei_sleep")
  /\ cpu' = [cpu EXCEPT !.pc = "sleep_cpu"]
  /\ io' = [io EXCEPT !.seiShadow = FALSE]
  /\ call' = call

\* line 270: the instruction after sei runs before any pending interrupt
SeiSleep ==
  /\ Running("sei_sleep")
  /\ cpu' = [cpu EXCEPT !.pc = "sleep_cpu"]
  /\ io' = [io EXCEPT !.iflag = TRUE, !.seiShadow = TRUE]
  /\ call' = call

\* line 271: SLEEP enters power-down when SE is set
SleepCpu ==
  /\ Running("sleep_cpu")
  /\ cpu' = [cpu EXCEPT !.pc = "sleep_disable"]
  /\ io' = [io EXCEPT !.asleep = io.se, !.seiShadow = FALSE]
  /\ call' = [call EXCEPT !.everSleepCpu = TRUE,
                          !.everAsleep = @ \/ io.se]

\* line 272
SleepDisable ==
  /\ Running("sleep_disable")
  /\ cpu' = [cpu EXCEPT !.pc = "sei"]
  /\ io' = [io EXCEPT !.se = FALSE, !.seiShadow = FALSE]
  /\ call' = call

\* line 274
Sei ==
  /\ Running("sei")
  /\ cpu' = [cpu EXCEPT !.pc = "detach"]
  /\ io' = [io EXCEPT !.iflag = TRUE, !.seiShadow = TRUE]
  /\ call' = call

\* line 276 left out
DetachOmitted ==
  /\ Running("detach")
  /\ cpu' = [cpu EXCEPT !.pc = "restore"]
  /\ io' = [io EXCEPT !.seiShadow = FALSE]
  /\ call' = call

\* line 276
Detach ==
  /\ Running("detach")
  /\ cpu' = [cpu EXCEPT !.pc = "restore"]
  /\ io' = [io EXCEPT !.attached = "none", !.seiShadow = FALSE]
  /\ call' = call

\* lines 278-287 with the ADC left off
AnalogRestoreOff ==
  /\ Running("restore")
  /\ cpu' = [cpu EXCEPT !.pc = "idle"]
  /\ io' = [io EXCEPT !.acd = @ \/ cpu.ac_was_set, !.seiShadow = FALSE]
  /\ call' = [call EXCEPT !.returned = TRUE]

\* lines 278-287
AnalogRestore ==
  /\ Running("restore")
  /\ cpu' = [cpu EXCEPT !.pc = "idle"]
  /\ io' = [io EXCEPT !.aden = @ \/ cpu.adc_was_set,
                      !.acd = @ \/ cpu.ac_was_set, !.seiShadow = FALSE]
  /\ call' = [call EXCEPT !.returned = TRUE]

\* INT1 is requested while the line is low and it is attached in LOW mode
\* (lines 251-264); it is taken when interrupts are enabled, not in the
\* instruction after sei. The handler wakeUp (lines 85-90) does nothing; taking
\* the interrupt ends power-down and clears BODS.
WakeUpISR ==
  /\ io.attached = "LOW" /\ ~io.pind3 /\ io.iflag /\ ~io.seiShadow
  /\ io' = [io EXCEPT !.asleep = FALSE, !.bods = FALSE]
  /\ call' = [call EXCEPT !.isrRan = TRUE]
  /\ cpu' = cpu

\* the positions between the masked re-check (line 267) and the sleep
\* instruction (line 271)
Window == {"sleep_enable", "bod", "sei_sleep", "sleep_cpu"}

\* The co-processor acts on a pending sleep request: it goes to sleep and
\* raises the line (the line attemptSleep polls, lines 120-124).
TiSleeps ==
  /\ io.tiReq /\ ~io.pind3
  /\ io' = [io EXCEPT !.pind3 = TRUE, !.tiReq = FALSE]
  /\ call' = [call EXCEPT !.everHigh = TRUE]
  /\ cpu' = cpu

\* The co-processor wakes: the line goes low and stays low until the next
\* sleep request is acted on.
TiWakes ==
  /\ io.pind3
  /\ io' = [io EXCEPT !.pind3 = FALSE, !.tiReq = FALSE]
  /\ call' = [call EXCEPT !.lowInWindow = @ \/ (cpu.pc \in Window /\ ~io.asleep)]
  /\ cpu' = cpu

(***************************************************************************)
(* The MIDI ring buffer and the packet encoder                             *)
(***************************************************************************)
Slots == 0 .. (MIDI_BUFFER_SIZE - 1)

Msg(t, s, b1, b2) == [timestamp |-> t, status |-> s, byte1 |-> b1, byte2 |-> b2]

ObsInit == [rets |-> <<>>, enq |-> <<>>, emitted |-> <<>>,
            drainCalled |-> FALSE, consumed |-> <<>>, lens |-> <<>>,
            overrun |-> FALSE, fed |-> FALSE, expected |-> <<>>,
            decoded |-> <<>>, handlerOf |-> [p \in ChangePins |-> 0]]

Op(name, r, a) == [op |-> name, ret |-> r, args |-> a]

\* static storage is zero-initialised (lines 49-52); pb: whether the decoder
\* session starts at a packet boundary
MidiInit(pb) ==
  /\ midiMessages = [i \in Slots |-> Msg(0, 0, 0, 0)]
  /\ midiWriteOffset = 0
  /\ midiReadOffset = 0
  /\ midiPacket = [i \in 0 .. (BLE_PACKET_SIZE - 1) |-> 0]
  /\ now = 0
  /\ sent = <<>>
  /\ rx = <<>>
  /\ midiPacketBegin = pb
  /\ lastStatus = 0
  /\ out = [status |-> 0, byte1 |-> 0, byte2 |-> 0]
  /\ lastOp = Op("none", 0, <<>>)
  /\ obs = ObsInit

\* millis() advances by d (it wraps at 2^32, which the clock bounds of the
\* specifications stay below)
Tick(d) ==
  /\ now' = now + d
  /\ lastOp' = Op("tick", 0, <<>>)
  /\ UNCHANGED <<ringVars, decVars, obs>>

\* the buffer-full test of line 698, off by one slot
IsFullOff(w, r) == (w + 2) % MIDI_BUFFER_SIZE = r

\* the buffer-full test of line 698, on the wrong cursor
IsFullSelf(w, r) == (w + 1) % MIDI_BUFFER_SIZE = w

\* line 698
IsFull(w, r) == (w + 1) % MIDI_BUFFER_SIZE = r

\* lines 697-707
midiSend(status, byte1, byte2) ==
  IF IsFull(midiWriteOffset, midiReadOffset)
    THEN /\ lastOp' = Op("midiSend", 1, <<status, byte1, byte2>>)
         /\ obs' = [obs EXCEPT !.rets = Append(@, 1)]
         /\ UNCHANGED <<ringVars, decVars, now>>
    ELSE /\ midiMessages' = [midiMessages EXCEPT ![midiWriteOffset] =
                               Msg(now, status, byte1, byte2)]
         /\ midiWriteOffset' = U8(midiWriteOffset + 1) % MIDI_BUFFER_SIZE
         /\ lastOp' = Op("midiSend", 0, <<status, byte1, byte2>>)
         /\ obs' = [obs EXCEPT !.rets = Append(@, 0),
                      !.enq = Append(@, Msg(now, status, byte1, byte2))]
         /\ UNCHANGED <<midiReadOffset, midiPacket, sent, decVars, now>>

\* bit n of x
Bit(x, n) == (x \div (2 ^ n)) % 2

\* lines 715-716 without line 717: bit 6 is left as it is
HeadTsOff(millisec) ==
  LET shifted == U8(millisec \div 128)
  IN  IF Bit(shifted, 7) = 1 THEN shifted ELSE shifted + 128

\* lines 715-717: the 32-bit timestamp shifted right by 7 and cut to 8 bits,
\* then bit 7 set, then bit 6 cleared
HeadTs(millisec) ==
  LET shifted == U8(millisec \div 128)
      with7 == IF Bit(shifted, 7) = 1 THEN shifted ELSE shifted + 128
  IN  IF Bit(with7, 6) = 1 THEN with7 - 64 ELSE with7

\* lines 728-729 without bit 7 set
MsgTsOff(timestamp) == timestamp % 128

\* lines 728-729: uint8_t msg_ts = timestamp, bit 7 set
MsgTs(timestamp) == 128 + (timestamp % 128)

\* midiPacket[byteOffset++] = b; a write past the array is recorded, not stored
PutByte(e, b) ==
  IF e.off < BLE_PACKET_SIZE
    THEN [e EXCEPT !.pkt[e.off] = b, !.off = U8(e.off + 1)]
    ELSE [e EXCEPT !.overrun = TRUE, !.off = U8(e.off + 1)]

\* lines 720-721: the locals the loop compares with; no statement of the loop
\* assigns them
PrevStatus == -1
PrevTime == -1

\* line 724: an int compared with a uint32_t is converted to uint32_t; a
\* negative one becomes 2^32 + lastTime, above every clock value of the model
SameTime(lastTime, timestamp) == lastTime >= 0 /\ lastTime = timestamp

\* lines 723-724: the uint8_t status is promoted to int
IsRunningStatus(m) == PrevStatus = m.status /\ SameTime(PrevTime, m.timestamp)

\* lines 723-734
EncodeMessage(e, m) ==
  IF IsRunningStatus(m)
    THEN PutByte(PutByte(e, m.byte1), m.byte2)
    ELSE PutByte(PutByte(PutByte(PutByte(e, MsgTs(m.timestamp)), m.status),
                         m.byte1), m.byte2)

\* the test of line 737 without the room for one more message
PacketFullOff(byteOffset) == byteOffset > BLE_PACKET_SIZE

\* lines 737-739
PacketFull(byteOffset) == byteOffset + 4 > BLE_PACKET_SIZE

\* the cursor advance of lines 735-736 stepping over a message
NextReadSkip(r) == U8(r + 2) % MIDI_BUFFER_SIZE

\* lines 735-736
NextRead(r) == U8(r + 1) % MIDI_BUFFER_SIZE

\* lines 722-740
RECURSIVE EncodeLoop(_)
EncodeLoop(e) ==
  IF e.r = midiWriteOffset
    THEN e
    ELSE LET m == midiMessages[e.r]
             e1 == EncodeMessage(e, m)
             e2 == [e1 EXCEPT !.r = NextRead(e.r),
                              !.consumed = Append(@, m),
                              !.lens = Append(@, e1.off - e.off)]
         IN  IF PacketFull(e2.off) THEN e2 ELSE EncodeLoop(e2)

\* the bytes Serial.write_message reads: n bytes from the start of midiPacket
PacketBytes(pkt, n) ==
  [i \in 1 .. n |-> IF i - 1 < BLE_PACKET_SIZE THEN pkt[i - 1] ELSE 0]

\* lines 709-743
midiPacketSend ==
  IF midiReadOffset = midiWriteOffset
    THEN /\ lastOp' = Op("midiPacketSend", 0, <<>>)
         /\ obs' = [obs EXCEPT !.drainCalled = TRUE]
         /\ UNCHANGED <<ringVars, decVars, now>>
    ELSE LET e0 == [r |-> midiReadOffset, off |-> 0, pkt |-> midiPacket,
                    overrun |-> FALSE, consumed |-> <<>>, lens |-> <<>>]
             e == EncodeLoop(PutByte(e0,
                      HeadTs(midiMessages[midiReadOffset].timestamp)))
         IN  /\ midiPacket' = e.pkt
             /\ midiReadOffset' = e.r
             /\ sent' = PacketBytes(e.pkt, e.off)
             /\ lastOp' = Op("midiPacketSend", e.off, <<>>)
             /\ obs' = [obs EXCEPT !.drainCalled = TRUE,
                          !.emitted = @ \o e.consumed,
                          !.consumed = e.consumed, !.lens = e.lens,
                          !.overrun = @ \/ e.overrun]
             /\ UNCHANGED <<midiMessages, midiWriteOffset, decVars, now>>

(***************************************************************************)
(* The decoder: BeanClass::midiRead, and keepAwake, which resets it        *)
(***************************************************************************)
\* the header test of line 748 accepting any buffered byte
HeaderReadyOff(n) == n > 0

\* line 748
HeaderReady(n) == n > 4

\* the end-of-packet test of lines 767-770 never taken
IsEndOfPacketOff(b) == FALSE

\* lines 767-770
IsEndOfPacket(b) == b[1] = 255 /\ b[2] = 255 /\ b[3] = 255 /\ b[4] = 255

Rest(s, n) == SubSeq(s, n + 1, Len(s))

\* lines 745-790 as a function of the inbound bytes, the session state and the
\* caller's outputs
Decode(rxv, pb, ls, o) ==
  LET hdr == pb /\ HeaderReady(Len(rxv))
      rx1 == IF hdr THEN Rest(rxv, 1) ELSE rxv
      pb1 == IF hdr THEN FALSE ELSE pb
      idle == [rx |-> rx1, pb |-> pb1, ls |-> ls, out |-> o, ret |-> 0]
  IN  IF ~pb1 /\ Len(rx1) > 0
        THEN LET peek == rx1[1]
             IN  IF peek >= 128
                   THEN IF Len(rx1) >= 4
                          THEN LET b == SubSeq(rx1, 1, 4)
                               IN  [rx |-> Rest(rx1, 4),
                                    pb |-> IF IsEndOfPacket(b) THEN TRUE
                                                               ELSE pb1,
                                    ls |-> b[2],
                                    out |-> [status |-> b[2], byte1 |-> b[3],
                                             byte2 |-> b[4]],
                                    ret |-> IF IsEndOfPacket(b) THEN 0
                                                                ELSE peek]
                          ELSE idle
                   ELSE IF Len(rx1) >= 2
                          THEN [rx |-> Rest(rx1, 2), pb |-> pb1, ls |-> ls,
                                out |-> [status |-> ls, byte1 |-> rx1[1],
                                         byte2 |-> rx1[2]],
                                ret |-> peek]
                          ELSE idle
        ELSE idle

\* lines 745-790
midiRead ==
  LET d == Decode(rx, midiPacketBegin, lastStatus, out)
  IN  /\ rx' = d.rx
      /\ midiPacketBegin' = d.pb
      /\ lastStatus' = d.ls
      /\ out' = d.out
      /\ lastOp' = Op("midiRead", d.ret, <<Len(rx) - Len(d.rx)>>)
      /\ obs' = IF obs.fed /\ d.ret # 0
                  THEN [obs EXCEPT !.decoded = Append(@, d.out)]
                  ELSE obs
      /\ UNCHANGED <<ringVars, now>>

\* lines 96-106
keepAwake(enable) ==
  /\ lastStatus' = 0
  /\ midiPacketBegin' = TRUE
  /\ io' = [io EXCEPT !.uartSleep = IF enable THEN "NEVER" ELSE "NORMAL"]
  /\ lastOp' = Op("keepAwake", 0, <<>>)
  /\ obs' = [obs EXCEPT !.fed = FALSE]
  /\ UNCHANGED <<ringVars, rx, out, now, cpu, call>>

\* the length test of line 861, one byte too generous
ScratchFitsOff(dataLength) == dataLength <= MAX_SCRATCH_SIZE + 1

\* line 861
ScratchFits(dataLength) == dataLength <= MAX_SCRATCH_SIZE

\* lines 857-872; data holds the dataLength bytes the caller passes, the
\* message is the first (uint8_t)(dataLength + 1) bytes of the BT_SCRATCH_T
\* (the bank, then the data), the result is 1 for true and 0 for false
setScratchData(bank, data) ==
  LET dataLength == Len(data)
      scratch == <<bank>> \o data
  IN  /\ IF ScratchFits(dataLength)
           THEN /\ io' = [io EXCEPT !.scratchTx =
                           Append(@, SubSeq(scratch, 1, U8(dataLength + 1)))]
                /\ lastOp' = Op("setScratchData", 1, <<bank, data>>)
           ELSE /\ io' = io
                /\ lastOp' = Op("setScratchData", 0, <<bank, data>>)
      /\ UNCHANGED <<cpu, call, ringVars, decVars, now, obs>>

\* lines 289-321; obs.handlerOf remembers the handler the sketch attached
\* for each pin
attachChangeInterrupt(pin, userFunc) ==
  /\ io' = [io EXCEPT !.pcie2 = IF pin = 0 THEN TRUE ELSE @,
                      !.pcie0 = IF pin \in 1 .. 5 THEN TRUE ELSE @,
                      !.pcmsk = IF pin \in 0 .. 5 THEN @ \cup {pin} ELSE @,
                      !.intFunc = userFunc]
  /\ lastOp' = Op("attachChangeInterrupt", 0, <<pin>>)
  /\ obs' = [obs EXCEPT !.handlerOf[pin] = userFunc]
  /\ UNCHANGED <<cpu, call, ringVars, decVars, now>>

\* lines 323-355
detachChangeInterrupt(pin) ==
  /\ io' = [io EXCEPT !.pcie2 = IF pin = 0 THEN FALSE ELSE @,
                      !.pcie0 = IF pin \in 1 .. 5 THEN FALSE ELSE @,
                      !.pcmsk = IF pin \in 0 .. 5 THEN @ \ {pin} ELSE @,
                      !.intFunc = 0]
  /\ lastOp' = Op("detachChangeInterrupt", 0, <<pin>>)
  /\ obs' = [obs EXCEPT !.handlerOf[pin] = 0]
  /\ UNCHANGED <<cpu, call, ringVars, decVars, now>>

\* the level of a pin changes: its pin-change interrupt is requested when the
\* pin's mask bit and its group's enable bit are set, and the vector (lines
\* 56-81) then calls intFunc unless it is NULL; the result is the handler
\* that ran, 0 for none
PinChange(pin) ==
  LET requested == /\ pin \in io.pcmsk
                   /\ IF pin = 0 THEN io.pcie2 ELSE io.pcie0
  IN  /\ lastOp' = Op("pinChange", IF requested THEN io.intFunc ELSE 0,
                      <<pin>>)
      /\ UNCHANGED <<cpu, io, call, ringVars, decVars, now, obs>>

\* the transport receives one more inbound byte
Receive(b) ==
  /\ rx' = Append(rx, b)
  /\ lastOp' = Op("receive", 0, <<>>)
  /\ obs' = [obs EXCEPT !.fed = FALSE]
  /\ UNCHANGED <<ringVars, midiPacketBegin, lastStatus, out, now>>

\* the packet last handed to the transport arrives as the inbound bytes of a
\* session at a packet boundary
Loopback ==
  /\ sent # <<>> /\ rx = <<>> /\ midiPacketBegin
  /\ rx' = sent
  /\ lastOp' = Op("loopback", 0, <<>>)
  /\ obs' = [obs EXCEPT !.fed = TRUE, !.expected = obs.consumed,
                        !.decoded = <<>>]
  /\ UNCHANGED <<ringVars, midiPacketBegin, lastStatus, out, now>>

(***************************************************************************)
(* Specifications                                                          *)
(***************************************************************************)
SleepSpecInit ==
  /\ \E d3 \in BOOLEAN, ad \in BOOLEAN, ac \in BOOLEAN : SleepInit(d3, ad, ac)
  /\ MidiInit(FALSE)

MidiSpecInit ==
  /\ SleepInit(FALSE, TRUE, FALSE)
  /\ \E pb \in BOOLEAN : MidiInit(pb)

CpuStep ==
  /\ \/ Entry \/ AttemptRequest \/ AttemptPoll \/ AttemptReturn \/ Branch
     \/ Slept \/ AnalogOff \/ Attach \/ Cli \/ Check \/ SleepEnable
     \/ BodDisable \/ SeiSleep \/ SleepCpu \/ SleepDisable \/ Sei \/ Detach
     \/ AnalogRestore
  /\ UNCHANGED midiVars

Interrupt == WakeUpISR /\ UNCHANGED midiVars

SleepNext ==
  \/ (\E d \in SleepDurations : Call(d)) /\ UNCHANGED midiVars
  \/ Entry /\ UNCHANGED midiVars
  \/ AttemptRequest /\ UNCHANGED midiVars
  \/ AttemptPoll /\ UNCHANGED midiVars
  \/ AttemptReturn /\ UNCHANGED midiVars
  \/ Branch /\ UNCHANGED midiVars
  \/ Slept /\ UNCHANGED midiVars
  \/ AnalogOff /\ UNCHANGED midiVars
  \/ Attach /\ UNCHANGED midiVars
  \/ Cli /\ UNCHANGED midiVars
  \/ Check /\ UNCHANGED midiVars
  \/ SleepEnable /\ UNCHANGED midiVars
  \/ BodDisable /\ UNCHANGED midiVars
  \/ SeiSleep /\ UNCHANGED midiVars
  \/ SleepCpu /\ UNCHANGED midiVars
  \/ SleepDisable /\ UNCHANGED midiVars
  \/ Sei /\ UNCHANGED midiVars
  \/ Detach /\ UNCHANGED midiVars
  \/ AnalogRestore /\ UNCHANGED midiVars
  \/ WakeUpISR /\ UNCHANGED midiVars
  \/ TiSleeps /\ UNCHANGED midiVars
  \/ TiWakes /\ UNCHANGED midiVars

\* The foreground code keeps running while the CPU is awake, and a requested,
\* enabled interrupt is taken; the co-processor and the caller are free. No
\* duration of SleepDurations exceeds MAX_DELAY, so the retry loop (Retry) is
\* not entered.
SleepSpec ==
  SleepSpecInit /\ [][SleepNext]_vars /\ WF_vars(CpuStep) /\ WF_vars(Interrupt)

\* sleep() with a duration above MAX_DELAY, where line 153 enters the retry
\* loop; the analog peripherals are as after reset
LongSleepInit ==
  /\ SleepInit(FALSE, TRUE, FALSE)
  /\ MidiInit(FALSE)

LongCpuStep == CpuStep \/ (Retry /\ UNCHANGED midiVars)

LongSleepNext ==
  \/ (\E d \in LongDurations : Call(d)) /\ UNCHANGED midiVars
  \/ Retry /\ UNCHANGED midiVars
  \/ Entry /\ UNCHANGED midiVars
  \/ AttemptRequest /\ UNCHANGED midiVars
  \/ AttemptPoll /\ UNCHANGED midiVars
  \/ AttemptReturn /\ UNCHANGED midiVars
  \/ Branch /\ UNCHANGED midiVars
  \/ Slept /\ UNCHANGED midiVars
  \/ AnalogOff /\ UNCHANGED midiVars
  \/ Attach /\ UNCHANGED midiVars
  \/ Cli /\ UNCHANGED midiVars
  \/ Check /\ UNCHANGED midiVars
  \/ SleepEnable /\ UNCHANGED midiVars
  \/ BodDisable /\ UNCHANGED midiVars
  \/ SeiSleep /\ UNCHANGED midiVars
  \/ SleepCpu /\ UNCHANGED midiVars
  \/ SleepDisable /\ UNCHANGED midiVars
  \/ Sei /\ UNCHANGED midiVars
  \/ Detach /\ UNCHANGED midiVars
  \/ AnalogRestore /\ UNCHANGED midiVars
  \/ WakeUpISR /\ UNCHANGED midiVars
  \/ TiSleeps /\ UNCHANGED midiVars
  \/ TiWakes /\ UNCHANGED midiVars

LongSleepSpec ==
  LongSleepInit /\ [][LongSleepNext]_vars /\ WF_vars(LongCpuStep)
    /\ WF_vars(Interrupt)

\* the ring buffer under midiSend and midiPacketSend, the payload numbered by
\* the call
RingNext ==
  \/ /\ Len(obs.rets) < MaxRingSends
     /\ midiSend(144, Len(obs.rets) % 128, 100)
     /\ UNCHANGED sleepVars
  \/ midiPacketSend /\ UNCHANGED sleepVars

RingSpec == MidiSpecInit /\ [][RingNext]_vars

\* encoder and decoder back to back
CodecNext ==
  \/ (\E d \in TickSteps : now + d <= CodecMaxNow /\ Tick(d))
       /\ UNCHANGED sleepVars
  \/ /\ Len(obs.rets) < MaxCodecSends
     /\ \E ev \in CodecEvents : midiSend(ev[1], ev[2], ev[3])
     /\ UNCHANGED sleepVars
  \/ midiPacketSend /\ UNCHANGED sleepVars
  \/ Loopback /\ UNCHANGED sleepVars
  \/ midiRead /\ UNCHANGED sleepVars
  \/ rx = <<>> /\ \E en \in BOOLEAN : keepAwake(en)

CodecSpec == MidiSpecInit /\ [][CodecNext]_vars

\* the packet header over timestamps that reach bits 7 to 15
HeadNext ==
  \/ (\E d \in HeadTickSteps : now + d <= HeadMaxNow /\ Tick(d))
       /\ UNCHANGED sleepVars
  \/ /\ Len(obs.rets) < MaxHeadSends
     /\ midiSend(144, 69, 100)
     /\ UNCHANGED sleepVars
  \/ midiPacketSend /\ UNCHANGED sleepVars

HeadSpec == MidiSpecInit /\ [][HeadNext]_vars

\* setScratchData on buffers of several lengths and contents
ScratchNext ==
  \E bank \in ScratchBanks, n \in ScratchLengths, first \in ScratchFirst :
    /\ Len(io.scratchTx) < MaxScratchWrites
    /\ setScratchData(bank, [i \in 1 .. n |-> U8(first + i - 1)])

ScratchSpec == MidiSpecInit /\ [][ScratchNext]_vars

\* pin-change interrupts attached, detached and raised in any order
PinNext ==
  \/ \E pin \in ChangePins, f \in Handlers : attachChangeInterrupt(pin, f)
  \/ \E pin \in ChangePins : detachChangeInterrupt(pin)
  \/ \E pin \in ChangePins : PinChange(pin)

PinSpec == MidiSpecInit /\ [][PinNext]_vars

\* the decoder on arbitrary inbound bytes
DecNext ==
  \/ /\ Len(rx) < MaxRx
     /\ \E b \in RxBytes : Receive(b)
     /\ UNCHANGED sleepVars
  \/ midiRead /\ UNCHANGED sleepVars
  \/ \E en \in BOOLEAN : keepAwake(en)

DecSpec == MidiSpecInit /\ [][DecNext]_vars

(***************************************************************************)
(* Properties                                                              *)
(***************************************************************************)
\* the queued messages, oldest first
Queue ==
  [i \in 1 .. ((midiWriteOffset - midiReadOffset + MIDI_BUFFER_SIZE)
                 % MIDI_BUFFER_SIZE) |->
     midiMessages[(midiReadOffset + i - 1) % MIDI_BUFFER_SIZE]]

IsPrefix(s, t) == Len(s) <= Len(t) /\ s = SubSeq(t, 1, Len(s))

Triple(m) == [status |-> m.status, byte1 |-> m.byte1, byte2 |-> m.byte2]

Triples(ms) == [i \in 1 .. Len(ms) |-> Triple(ms[i])]

RECURSIVE Sum(_)
Sum(s) == IF s = <<>> THEN 0 ELSE Head(s) + Sum(Tail(s))

\* C1: once the wake interrupt is armed the wake event is never lost: when the
\* line goes low between the masked re-check (line 267) and the sleep
\* instruction (line 271), the processor is woken and sleep() returns.
C1_WakeNotLost == call.lowInWindow ~> (cpu.pc = "idle")

C1_Witness ==
  call.lowInWindow /\ call.everAsleep /\ call.isrRan /\ call.returned

\* C10: a call with a duration below the 10 ms floor only waits duration_ms:
\* it makes no sleep request, never polls the ready line, never attaches the
\* wake interrupt, never sets the sleep-enable latch and never executes the
\* sleep instruction.
C10_BelowFloorOnlyWaits ==
  (call.dur >= 0 /\ call.dur < 10) =>
    /\ call.nReqs = 0
    /\ call.nPolls = 0
    /\ ~call.everAttached /\ io.attached = "none"
    /\ ~call.everSE /\ ~io.se
    /\ ~call.everSleepCpu /\ ~call.everAsleep /\ ~io.asleep
    /\ cpu.pc \in {"entry", "idle"}
    /\ call.waited = IF call.returned THEN call.dur ELSE 0

C10_Witness == call.dur = 5 /\ call.returned /\ call.waited = 5

\* C2: midiSend into a full ring buffer returns the buffer-full result and
\* changes neither cursor nor any stored event; on a buffer that is not full
\* it stores the event at the write cursor and advances the write cursor by
\* one modulo N.
C2_SendFullOrStore ==
  [][lastOp'.op = "midiSend" =>
       IF (midiWriteOffset + 1) % 20 = midiReadOffset
         THEN /\ lastOp'.ret = 1
              /\ UNCHANGED <<midiMessages, midiWriteOffset, midiReadOffset>>
         ELSE /\ lastOp'.ret = 0
              /\ midiMessages' =
                   [midiMessages EXCEPT ![midiWriteOffset] =
                      Msg(now, lastOp'.args[1], lastOp'.args[2],
                          lastOp'.args[3])]
              /\ midiWriteOffset' = (midiWriteOffset + 1) % 20
              /\ midiReadOffset' = midiReadOffset]_vars

C2_Witness ==
  /\ lastOp.op = "midiSend" /\ lastOp.ret = 1
  /\ midiReadOffset > 0 /\ midiWriteOffset < midiReadOffset

\* the return values of the first calls made on an empty buffer that is never
\* drained, when cap of them succeed
FillRets(cap) ==
  \A i \in 1 .. Len(obs.rets) : obs.rets[i] = IF i <= cap THEN 0 ELSE 1

\* the buffer holds exactly the first cap events of those calls, in order
FillHolds(cap) ==
  LET n == IF Len(obs.rets) <= cap THEN Len(obs.rets) ELSE cap
  IN  /\ Len(Queue) = n
      /\ \A i \in 1 .. n : Triple(Queue[i]) =
                             [status |-> 144, byte1 |-> i - 1, byte2 |-> 100]

\* C3 as claimed: from an empty buffer with no drain in between, the first
\* N = 20 midiSend calls succeed, call N+1 fails and the buffer holds the
\* first N events in order.
C3_FirstNSucceed ==
  ~obs.drainCalled => FillRets(MIDI_BUFFER_SIZE) /\ FillHolds(MIDI_BUFFER_SIZE)

\* C3 amended: from an empty buffer with no drain in between, the first
\* N - 1 = 19 midiSend calls succeed, every later call fails and the buffer
\* holds the first N - 1 events in order.
C3_FirstNMinus1Succeed ==
  ~obs.drainCalled =>
    FillRets(MIDI_BUFFER_SIZE - 1) /\ FillHolds(MIDI_BUFFER_SIZE - 1)

C3_Witness ==
  /\ ~obs.drainCalled /\ Len(obs.rets) = 21
  /\ obs.rets[19] = 0 /\ obs.rets[20] = 1 /\ obs.rets[21] = 1

\* the bytes of the last packet that encode its i-th consumed message
RecordBytes(i) ==
  LET at == 1 + Sum(SubSeq(obs.lens, 1, i - 1))
  IN  SubSeq(sent, at + 1, at + obs.lens[i])

\* C6: the events emitted by successive midiPacketSend calls, concatenated, are
\* a prefix of the successfully enqueued events in enqueue order, the rest is
\* still queued behind the read cursor, and every event a call consumed is
\* encoded in the packet the call handed to the transport.
C6_EmittedIsPrefix ==
  /\ obs.emitted \o Queue = obs.enq
  /\ sent # <<>> =>
       /\ Len(sent) = 1 + Sum(obs.lens)
       /\ \A i \in 1 .. Len(obs.consumed) :
            LET m == obs.consumed[i]
            IN  RecordBytes(i) \in
                  {<<MsgTs(m.timestamp), m.status, m.byte1, m.byte2>>,
                   <<m.byte1, m.byte2>>}

C6_Witness ==
  /\ lastOp.op = "midiPacketSend" /\ Len(obs.consumed) = 4
  /\ midiReadOffset # midiWriteOffset /\ midiWriteOffset < midiReadOffset
  /\ Len(obs.emitted) >= 8

\* C7: midiPacketSend never writes past the 20-byte packet array, hands at
\* most 20 bytes to the transport, and on a non-empty buffer consumes at least
\* one event.
C7_PacketWithinCapacity ==
  [][lastOp'.op = "midiPacketSend" =>
       /\ ~obs'.overrun
       /\ lastOp'.ret <= 20
       /\ midiReadOffset # midiWriteOffset =>
            /\ Len(sent') = lastOp'.ret
            /\ Len(obs'.consumed) >= 1
            /\ midiReadOffset' =
                 (midiReadOffset + Len(obs'.consumed)) % MIDI_BUFFER_SIZE
            /\ midiReadOffset' # midiReadOffset]_vars

C7_Witness ==
  /\ lastOp.op = "midiPacketSend" /\ lastOp.ret = 17
  /\ midiReadOffset # midiWriteOffset

\* an event whose 4-byte record is the end-of-packet sentinel
SentinelLike(m) ==
  MsgTs(m.timestamp) = 255 /\ m.status = 255 /\ m.byte1 = 255 /\ m.byte2 = 255

\* the decoder has delivered, in order, the events of the packet it was fed,
\* all of them once the inbound bytes are used up
RoundTrip ==
  /\ IsPrefix(obs.decoded, Triples(obs.expected))
  /\ rx = <<>> => obs.decoded = Triples(obs.expected)
  /\ rx # <<>> =>
       Len(Decode(rx, midiPacketBegin, lastStatus, out).rx) < Len(rx)

\* C4 as claimed: for arbitrary 8-bit status, data1, data2 and arbitrary
\* timestamps, the bytes of one midiPacketSend call fed to a decoder at a
\* packet boundary are decoded by successive midiRead calls into the consumed
\* events' triples, in order, each reported as an event.
C4_RoundTrip == obs.fed => RoundTrip

\* C4 amended: the same, for packets none of whose events has status, data1
\* and data2 all 0xFF with the low 7 bits of its timestamp all set (the record
\* that is the end-of-packet sentinel).
C4_RoundTripNoSentinel ==
  (obs.fed /\ \A i \in 1 .. Len(obs.expected) : ~SentinelLike(obs.expected[i]))
    => RoundTrip

C4_Witness ==
  /\ obs.fed /\ rx = <<>> /\ Len(obs.expected) = 2
  /\ obs.decoded = Triples(obs.expected)
  /\ obs.expected[1].status = 255 /\ obs.expected[2].byte1 = 255
  /\ obs.expected[1].timestamp = 127
  /\ \A i \in 1 .. 2 : ~SentinelLike(obs.expected[i])

\* C5: in a packet, an event with the status and the timestamp of the event
\* before it is encoded as 2 bytes, and every other event as 4 bytes.
C5_RunningStatusCompression ==
  \A i \in 1 .. Len(obs.consumed) :
    obs.lens[i] =
      IF /\ i > 1
         /\ obs.consumed[i].status = obs.consumed[i - 1].status
         /\ obs.consumed[i].timestamp = obs.consumed[i - 1].timestamp
        THEN 2 ELSE 4

\* the bytes midiRead looks at once a due packet header is taken
Body == IF midiPacketBegin /\ Len(rx) >= 5 THEN Rest(rx, 1) ELSE rx

InBody == ~midiPacketBegin \/ Len(rx) >= 5

\* C8: the end-of-packet sentinel, read by midiRead as a 4-byte record, is
\* never reported as an event (the call returns 0) and sets the decoder back
\* to the packet boundary, whatever the decoder state it is read in.
C8_SentinelResets ==
  [][(/\ lastOp'.op = "midiRead"
      /\ InBody /\ Len(Body) >= 4
      /\ SubSeq(Body, 1, 4) = <<255, 255, 255, 255>>)
       => /\ lastOp'.ret = 0
          /\ midiPacketBegin'
          /\ rx' = Rest(Body, 4)]_vars

C8_Witness ==
  /\ lastOp.op = "midiRead" /\ lastOp.ret = 0 /\ lastOp.args[1] \in {4, 5}
  /\ midiPacketBegin /\ rx # <<>>

\* fewer bytes are buffered than the step midiRead is at needs
Insufficient ==
  \/ midiPacketBegin /\ Len(rx) < 5
  \/ ~midiPacketBegin /\ rx = <<>>
  \/ ~midiPacketBegin /\ rx # <<>> /\ rx[1] >= 128 /\ Len(rx) < 4
  \/ ~midiPacketBegin /\ rx # <<>> /\ rx[1] < 128 /\ Len(rx) < 2

\* C9: with fewer bytes buffered than the current step needs (5 at a packet
\* boundary, 4 behind a byte with the high bit set, 2 behind one with it
\* clear), midiRead returns 0, consumes no byte and leaves packetBegin and the
\* remembered running status as they were.
C9_InsufficientRetryable ==
  [][(lastOp'.op = "midiRead" /\ Insufficient)
       => /\ lastOp'.ret = 0
          /\ rx' = rx
          /\ midiPacketBegin' = midiPacketBegin
          /\ lastStatus' = lastStatus]_vars

C9_Witness ==
  /\ lastOp = Op("midiRead", 0, <<0>>)
  /\ ~midiPacketBegin /\ Len(rx) = 3 /\ rx[1] >= 128 /\ lastStatus # 0

C12_AnalogRestored ==
  (call.returned /\ call.everAsleep)
    => (io.aden = call.aden0 /\ io.acd = call.acd0)

\* a call made with the ADC and the comparator both enabled has slept and
\* returned
C12_Witness ==
  /\ call.returned /\ call.everAsleep /\ call.aden0 /\ ~call.acd0
  /\ io.aden /\ ~io.acd

\* C13: while the CPU is in power-down the ADC is disabled (ADEN clear) and
\* the analog comparator is disabled (ACD set).
C13_AnalogOffInSleep == io.asleep => (~io.aden /\ io.acd)

\* C14: whenever sleep() has returned, the line is an input, the wake
\* interrupt is detached, the sleep-enable bit is clear and interrupts are
\* enabled.
C14_ReturnState ==
  (call.returned /\ call.dur >= 0)
    => /\ ~io.ddrd3
       /\ io.attached = "none"
       /\ ~io.se
       /\ io.iflag

\* a call has returned after the masked re-check found the line low
C14_Witness ==
  /\ call.returned /\ call.everAttached /\ ~call.everSE
  /\ ~io.ddrd3 /\ io.attached = "none"

\* C15: the sleep instruction runs only when a poll of the latest request
\* read the line high and the read made with interrupts masked read it high
\* again; in a call during which the line is never high the wake interrupt
\* is never attached and power-down is never entered.
C15_SleepOnlyWhenReady ==
  /\ call.everSleepCpu => (call.pollHigh /\ call.checkHigh)
  /\ ~call.everHigh =>
       (~call.everAttached /\ ~call.everSleepCpu /\ ~call.everAsleep)

\* the sleep instruction has just run after a poll of the third request and
\* the masked read both found the line high
C15_Witness ==
  /\ cpu.pc = "sleep_disable" /\ call.everSleepCpu
  /\ call.nReqs = 3
  /\ call.pollHigh /\ call.checkHigh

\* C16: in a sleep(d) call with d > 30000 during which the line is never
\* high, every request sent carries a duration above zero, each retry asks
\* for 30 ms less than the request before it (never less than 0), and the
\* call returns without entering power-down.
C16_RetryRequestsNonZero ==
  (call.dur > MAX_DELAY /\ ~call.everHigh)
    => /\ ~call.zeroReq
       /\ call.nReqs > 0 =>
            LET left == call.dur - MAX_SLEEP_POLL * (call.nReqs - 1)
            IN  call.lastReq = IF left > 0 THEN left ELSE 0
       /\ ~call.everAttached /\ ~call.everAsleep

(***************************************************************************)
(* midiRead: what the end-of-packet sentinel leaves behind                 *)
(***************************************************************************)
\* C17: a midiRead call that reads the end-of-packet sentinel leaves the
\* caller's three outputs and the remembered running status as they were, so
\* that a later running-status record is delivered with the status of the
\* last timed record reported as an event.
C17_SentinelKeepsStatus ==
  [][(/\ lastOp'.op = "midiRead"
      /\ InBody /\ Len(Body) >= 4
      /\ SubSeq(Body, 1, 4) = <<255, 255, 255, 255>>)
       => /\ out' = out
          /\ lastStatus' = lastStatus]_vars

(***************************************************************************)
(* midiPacketSend: the packet header                                       *)
(***************************************************************************)
\* C18: the first byte of the packet midiPacketSend sends is a byte with bit
\* 7 set, bit 6 clear and bits 5..0 equal to bits 12..7 of the timestamp of
\* the event that was at the read cursor when the call was made.
C18_HeaderFromOldest ==
  [][(lastOp'.op = "midiPacketSend" /\ midiReadOffset # midiWriteOffset)
       => LET t == midiMessages[midiReadOffset].timestamp
              h == sent'[1]
          IN  /\ h \in 0 .. 255
              /\ Bit(h, 7) = 1
              /\ Bit(h, 6) = 0
              /\ \A k \in 0 .. 5 : Bit(h, k) = Bit(t, k + 7)]_vars

\* a packet whose oldest event has timestamp 44993 (bits 15, 13 and 12..7 =
\* 011111) has been sent with header 0x9F
C18_Witness ==
  /\ lastOp.op = "midiPacketSend" /\ Len(obs.consumed) = 2
  /\ obs.consumed[1].timestamp = 44993
  /\ sent[1] = 159

(***************************************************************************)
(* Power management and the MIDI state                                     *)
(***************************************************************************)
\* C19: no step of a power-management call (sleep with its attemptSleep, or
\* keepAwake) changes the ring buffer, its cursors, or the decoder's
\* packetBegin flag and remembered running status.
C19_PowerLeavesMidi ==
  [][(lastOp'.op = "keepAwake" \/ cpu' # cpu)
       => UNCHANGED <<midiMessages, midiWriteOffset, midiReadOffset,
                      midiPacketBegin, lastStatus>>]_vars

(***************************************************************************)
(* setScratchData                                                          *)
(***************************************************************************)
\* C20: a setScratchData call with more than 20 bytes returns false and
\* hands nothing to the transport; a call with 20 bytes or fewer hands it
\* exactly one message, the bank byte followed by the data bytes, and
\* returns true.
C20_ScratchWriteOrFail ==
  [][lastOp'.op = "setScratchData"
       => LET bank == lastOp'.args[1]
              data == lastOp'.args[2]
          IN  IF Len(data) > MAX_SCRATCH_SIZE
                THEN /\ lastOp'.ret = 0
                     /\ io'.scratchTx = io.scratchTx
                ELSE /\ lastOp'.ret = 1
                     /\ io'.scratchTx = Append(io.scratchTx, <<bank>> \o data)
                     /\ Len(io'.scratchTx[Len(io'.scratchTx)]) = Len(data) + 1
     ]_vars

\* a 20-byte write has been sent and a 21-byte write has then been refused
C20_Witness ==
  /\ lastOp.op = "setScratchData" /\ lastOp.ret = 0
  /\ Len(lastOp.args[2]) = 21
  /\ Len(io.scratchTx) = 1 /\ Len(io.scratchTx[1]) = 21

(***************************************************************************)
(* midiRead: the result and the event                                      *)
(***************************************************************************)
\* the call consumes a timed record other than the sentinel, or a
\* running-status record
Delivers ==
  /\ InBody /\ Len(Body) > 0
  /\ \/ /\ Body[1] >= 128 /\ Len(Body) >= 4
        /\ SubSeq(Body, 1, 4) # <<255, 255, 255, 255>>
     \/ Body[1] < 128 /\ Len(Body) >= 2

\* C21: midiRead returns a value other than 0 exactly when the call delivers
\* an event, that is, consumes a timed record other than the sentinel or a
\* running-status record, whatever the bytes of the record are.
C21_NonZeroIffEvent ==
  [][lastOp'.op = "midiRead" => (Delivers <=> lastOp'.ret # 0)]_vars

(***************************************************************************)
(* Pin-change interrupts                                                   *)
(***************************************************************************)
\* C22: a change on a pin that has a handler attached (attached for that pin
\* and not detached since) calls that pin's handler, whatever was attached
\* or detached on other pins in between (pins 0 to 5, the ones the two
\* switches know).
C22_HandlersPerPin ==
  [][(/\ lastOp'.op = "pinChange"
      /\ lastOp'.args[1] \in 0 .. 5
      /\ obs.handlerOf[lastOp'.args[1]] # 0)
       => lastOp'.ret = obs.handlerOf[lastOp'.args[1]]]_vars

====
